---- MODULE Spec2Model ----
(***************************************************************************)
(* Model of schedule_manager/core.py: the augmented red-black interval     *)
(* tree (IntervalNode, IntervalTree) and the per-day schedule index        *)
(* (Day, TimeSlot, ScheduleManager).                                       *)
(*                                                                         *)
(* Objects live in a heap: a tree is a record with the sequence of its     *)
(* allocated nodes, its sentinel, its root pointer and its size.  A        *)
(* pointer is None, NIL (the sentinel self.nil) or the index of a node.    *)
(* Every method is an operator from an interpreter state (the tree plus    *)
(* the pending exception, err) to the next one, statement by statement,    *)
(* so that an exception leaves exactly the assignments made before it.     *)
(***************************************************************************)
EXTENDS Integers, Sequences, FiniteSets, TLC

\* ------------------------------------------------------------------ bounds
\* largest time value of the tree workloads (starts and ends are 0..MaxTime)
MaxTime == 2
\* largest slot identifier of the tree workloads (identifiers are 1..MaxId)
MaxId == 2
\* number of insert calls of the free tree workload
MaxInserts == 4
\* the duplicate-slot workload: copies inserted first, and calls in all
DupPrefix == 10
MaxDupInserts == 14
\* the index workloads: hours of the time points, day ids, dates, batch sizes
MaxHour == 1
MaxDayId == 2
MaxDate == 2
MaxDays == 2
MaxSlots == 2

\* ------------------------------------------------------------ heap, nodes
None == 0 - 1
NIL == 0

RED == "red"
BLACK == "black"

\* IntervalNode(start, end, slot_id, max_end) with the dataclass defaults;
\* __post_init__ replaces a max_end of 0 by end.
IntervalNode(start, end, slot_id, max_end) ==
  [start |-> start, end |-> end, slot_id |-> slot_id,
   max_end |-> IF max_end = 0 THEN end ELSE max_end,
   left |-> None, right |-> None, parent |-> None, color |-> RED]

\* IntervalTree.__init__: root None, the sentinel, size 0.
NewTree ==
  [nodes |-> << >>,
   nil |-> [IntervalNode(0, 0, 0 - 1, 0) EXCEPT !.color = BLACK],
   root |-> None,
   size |-> 0]

\* the interpreter state of a method call on tree t
Enter(t) == [nodes |-> t.nodes, nil |-> t.nil, root |-> t.root, size |-> t.size, err |-> "ok"]
TreeOf(s) == [nodes |-> s.nodes, nil |-> s.nil, root |-> s.root, size |-> s.size]
Raise(s, e) == IF s.err = "ok" THEN [s EXCEPT !.err = e] ELSE s

\* the object a pointer p >= 0 refers to, and an attribute assignment p.f = v
Nd(s, p) == IF p = NIL THEN s.nil ELSE s.nodes[p]
SetF(s, p, f, v) ==
  IF p = NIL THEN [s EXCEPT !.nil = [@ EXCEPT ![f] = v]]
  ELSE [s EXCEPT !.nodes = [@ EXCEPT ![p] = [@ EXCEPT ![f] = v]]]

Max(a, b) == IF a >= b THEN a ELSE b

\* a == b on IntervalNode objects or None.  @dataclass generates __eq__ as a
\* comparison of the field tuples (start, end, slot_id, max_end, left, right,
\* parent, color); tuple comparison takes identical items as equal and calls
\* == on the others, so the comparison recurses through left, right and
\* parent.  "T"/"F" is the result; "R" is a comparison that re-enters a pair
\* it is already comparing, which never returns: Python raises RecursionError.
RECURSIVE NodeEq(_, _, _, _)
NodeEq(s, a, b, stack) ==
  IF a = None \/ b = None THEN (IF a = b THEN "T" ELSE "F")
  ELSE IF <<a, b>> \in stack THEN "R"
  ELSE LET na == Nd(s, a)
           nb == Nd(s, b)
           st2 == stack \cup {<<a, b>>}
           Item(x, y) == IF x = y THEN "T" ELSE NodeEq(s, x, y, st2)
       IN IF na.start # nb.start \/ na.end # nb.end
             \/ na.slot_id # nb.slot_id \/ na.max_end # nb.max_end THEN "F"
          ELSE LET l == Item(na.left, nb.left) IN
               IF l # "T" THEN l
               ELSE LET r == Item(na.right, nb.right) IN
                    IF r # "T" THEN r
                    ELSE LET p == Item(na.parent, nb.parent) IN
                         IF p # "T" THEN p
                         ELSE IF na.color = nb.color THEN "T" ELSE "F"

PyEq(s, a, b) == NodeEq(s, a, b, {})

\* "not" of a comparison's outcome
Not(e) == IF e = "R" THEN "R" ELSE IF e = "T" THEN "F" ELSE "T"

\* "p is not None and p != self.nil"
NotNil(s, p) == IF p = None THEN "F" ELSE Not(PyEq(s, p, NIL))

\* closed on the right: an interval that starts where the range ends overlaps it
overlaps_with_right_closed(n, start, end) == ~(n.end <= start \/ n.start > end)
\* closed on the left: an interval that ends where the range starts overlaps it
overlaps_with_left_closed(n, start, end) == ~(n.end < start \/ n.start >= end)

\* IntervalNode.overlaps_with
overlaps_with(n, start, end) == ~(n.end <= start \/ n.start >= end)

\* ----------------------------------------------------------- IntervalTree
\* Each operator is a stretch of statements: it takes the interpreter state
\* the statements before it left and gives the state they leave.

\* _update_max_end, lines 53-54 and 55-56: "if child is not None and
\* child != self.nil: node.max_end = max(node.max_end, child.max_end)";
\* has is the outcome of the test
MaxWithChild(s, node, child, has) ==
  IF has = "R" THEN Raise(s, "RecursionError")
  ELSE IF has = "T"
       THEN SetF(s, node, "max_end", Max(Nd(s, node).max_end, Nd(s, child).max_end))
       ELSE s
MaxWithLeft(s, node) ==
  IF s.err # "ok" THEN s
  ELSE MaxWithChild(s, node, Nd(s, node).left, NotNil(s, Nd(s, node).left))
MaxWithRight(s, node) ==
  IF s.err # "ok" THEN s
  ELSE MaxWithChild(s, node, Nd(s, node).right, NotNil(s, Nd(s, node).right))

\* _update_max_end, lines 49-56, isNil being the outcome of node == self.nil
UpdateMaxEndUnlessNil(s, node, isNil) ==
  IF isNil = "R" THEN Raise(s, "RecursionError")
  ELSE IF isNil = "T" THEN s
  ELSE MaxWithRight(MaxWithLeft(SetF(s, node, "max_end", Nd(s, node).end), node), node)

\* _update_max_end(node)
UpdateMaxEnd(s, node) ==
  IF s.err # "ok" \/ node = None THEN s
  ELSE UpdateMaxEndUnlessNil(s, node, PyEq(s, node, NIL))

\* The two rotations are mirror images: _left_rotate(x) takes y = x.right up
\* and hands y.left down to x; _right_rotate(y) takes x = y.left up and hands
\* x.right down.  With x the node rotated down, y the child that goes up,
\* up the side of x where y hangs and down the other side, both are
\*   x.up = y.down;  if y.down != self.nil: y.down.parent = x
\*   y.parent = x.parent
\*   if x.parent is None or x.parent == self.nil: self.root = y
\*   elif x == x.parent.down: x.parent.down = y   else: x.parent.up = y
\*   y.down = x;  x.parent = y;  _update_max_end(x);  _update_max_end(y)

\* lines 65-66, 90-91: "if c != self.nil: c.parent = x"
AdoptChild(s, c, x, isNil) ==
  IF isNil = "R" THEN Raise(s, "RecursionError")
  ELSE IF isNil = "T" THEN s
  ELSE IF c = None THEN Raise(s, "AttributeError")
  ELSE SetF(s, c, "parent", x)

\* lines 62-66, 87-91, after x.up = y.down
RotateAdopt(s, x, y, down) ==
  AdoptChild(s, Nd(s, y)[down], x, PyEq(s, Nd(s, y)[down], NIL))

\* lines 62-66, 87-91
RotateDetach(s, x, y, up, down) ==
  RotateAdopt(SetF(s, x, up, Nd(s, y)[down]), x, y, down)

\* lines 72-75, 97-100: "elif x == p.down: p.down = y  else: p.up = y"
ReplaceChild(s, p, y, up, down, isDown) ==
  IF isDown = "R" THEN Raise(s, "RecursionError")
  ELSE IF isDown = "T" THEN SetF(s, p, down, y)
  ELSE SetF(s, p, up, y)

\* lines 70-75, 95-100, p being x.parent
ReplaceUnder(s, x, y, p, up, down, isRoot) ==
  IF isRoot = "R" THEN Raise(s, "RecursionError")
  ELSE IF isRoot = "T" THEN [s EXCEPT !.root = y]
  ELSE ReplaceChild(s, p, y, up, down, PyEq(s, x, Nd(s, p)[down]))

\* lines 70-75, 95-100
RotateReplace(s, x, y, up, down) ==
  ReplaceUnder(s, x, y, Nd(s, x).parent, up, down,
               IF Nd(s, x).parent = None THEN "T" ELSE PyEq(s, Nd(s, x).parent, NIL))

\* lines 68-75, 93-100
RotateRelink(s, x, y, up, down) ==
  IF s.err # "ok" THEN s
  ELSE RotateReplace(SetF(s, y, "parent", Nd(s, x).parent), x, y, up, down)

\* lines 77-81, 102-106
RotateFinish(s, x, y, down) ==
  IF s.err # "ok" THEN s
  ELSE UpdateMaxEnd(UpdateMaxEnd(SetF(SetF(s, y, down, x), x, "parent", y), x), y)

\* lines 62-81, 87-106
Rotate(s, x, y, up, down) ==
  RotateFinish(RotateRelink(RotateDetach(s, x, y, up, down), x, y, up, down), x, y, down)

\* _left_rotate(x)
LeftRotate(s, x) ==
  IF s.err # "ok" \/ x = None THEN s
  ELSE IF Nd(s, x).right = None THEN s
  ELSE Rotate(s, x, Nd(s, x).right, "right", "left")

\* _right_rotate(y)
RightRotate(s, y) ==
  IF s.err # "ok" \/ y = None THEN s
  ELSE IF Nd(s, y).left = None THEN s
  ELSE Rotate(s, y, Nd(s, y).left, "left", "right")

\* _left_rotate for side = "left", _right_rotate for side = "right"
RotateTo(s, x, side) == IF side = "left" THEN LeftRotate(s, x) ELSE RightRotate(s, x)

\* The two branches of the loop of _insert_fixup are mirror images too: side
\* is the side of the grandparent where node.parent is taken to hang, other
\* the side of the uncle.  A branch gives the state and the node the loop
\* goes on with.

\* lines 119-121, 140-142: the uncle
Uncle(s, node, other) ==
  LET gp == Nd(s, Nd(s, node).parent).parent IN
  IF gp # None THEN Nd(s, gp)[other] ELSE NIL

\* lines 126-128, 147-149
RecolourGrandparent(s, node) ==
  LET gp == Nd(s, Nd(s, node).parent).parent IN
  IF gp # None THEN [s |-> SetF(s, gp, "color", RED), node |-> gp]
  ELSE [s |-> s, node |-> node]

\* lines 124-128, 145-149
Recolour(s, node, uncle) ==
  RecolourGrandparent(
    SetF(SetF(s, Nd(s, node).parent, "color", BLACK), uncle, "color", BLACK), node)

\* lines 136-138, 157-159
RotateGrandparent(s, node, other) ==
  LET gp == Nd(s, Nd(s, node).parent).parent IN
  IF gp = None THEN [s |-> s, node |-> node]
  ELSE [s |-> RotateTo(SetF(s, gp, "color", RED), gp, other), node |-> node]

\* lines 134-138, 155-159
RecolourAndRotate(s, node, other) ==
  IF s.err # "ok" \/ Nd(s, node).parent = None THEN [s |-> s, node |-> node]
  ELSE RotateGrandparent(SetF(s, Nd(s, node).parent, "color", BLACK), node, other)

\* lines 130-138, 151-159, isInner being the outcome of
\* node == node.parent.other
FixupRotate(s, node, side, other, isInner) ==
  IF isInner = "R" THEN [s |-> Raise(s, "RecursionError"), node |-> node]
  ELSE IF isInner = "T"
       THEN RecolourAndRotate(RotateTo(s, Nd(s, node).parent, side), Nd(s, node).parent, other)
       ELSE RecolourAndRotate(s, node, other)

\* lines 119-138, 140-159
FixupSide(s, node, side, other) ==
  IF Uncle(s, node, other) # None /\ Nd(s, Uncle(s, node, other)).color = RED
  THEN Recolour(s, node, Uncle(s, node, other))
  ELSE FixupRotate(s, node, side, other, PyEq(s, node, Nd(s, Nd(s, node).parent)[other]))

\* _insert_fixup, lines 119-138: node.parent is taken for the left child
FixupLeft(s, node) == FixupSide(s, node, "left", "right")
\* _insert_fixup, lines 140-159: the mirror case
FixupRight(s, node) == FixupSide(s, node, "right", "left")

\* _insert_fixup, the while loop of lines 112-159
RECURSIVE FixupLoop(_, _)
FixupContinue(step) == FixupLoop(step.s, step.node)

\* lines 116-159, isLeft being the outcome of "node.parent.parent is None or
\* node.parent == node.parent.parent.left"
FixupBranch(s, node, isLeft) ==
  IF isLeft = "R" THEN Raise(s, "RecursionError")
  ELSE FixupContinue(IF isLeft = "T" THEN FixupLeft(s, node) ELSE FixupRight(s, node))

\* lines 113-159, np being node.parent and isNil the outcome of np == self.nil
FixupWhile(s, node, np, isNil) ==
  IF isNil = "R" THEN Raise(s, "RecursionError")
  ELSE IF isNil = "T" \/ Nd(s, np).color # RED THEN s
  ELSE FixupBranch(s, node,
                   IF Nd(s, np).parent = None THEN "T"
                   ELSE PyEq(s, np, Nd(s, Nd(s, np).parent).left))

FixupLoop(s, node) ==
  IF s.err # "ok" THEN s
  ELSE IF Nd(s, node).parent = None THEN s
  ELSE FixupWhile(s, node, Nd(s, node).parent, PyEq(s, Nd(s, node).parent, NIL))

\* lines 161-162
BlackenRoot(s) ==
  IF s.err # "ok" \/ s.root = None THEN s
  ELSE SetF(s, s.root, "color", BLACK)

\* _insert_fixup(node)
InsertFixup(s, node) ==
  IF s.err # "ok" \/ node = None THEN s
  ELSE BlackenRoot(FixupLoop(s, node))

\* insert, the descent of lines 174-181; the result is the state and parent
RECURSIVE Descend(_, _, _, _)
\* lines 178-181, after _update_max_end(current)
DescendOn(s, new, current) ==
  IF s.err # "ok" THEN [s |-> s, parent |-> current]
  ELSE Descend(s, new,
               IF Nd(s, new).start <= Nd(s, current).start
               THEN Nd(s, current).left ELSE Nd(s, current).right,
               current)

\* lines 174-181, more being the outcome of the loop test
DescendWhile(s, new, current, parent, more) ==
  IF more = "R" THEN [s |-> Raise(s, "RecursionError"), parent |-> parent]
  ELSE IF more = "F" THEN [s |-> s, parent |-> parent]
  ELSE DescendOn(UpdateMaxEnd(s, current), new, current)

Descend(s, new, current, parent) ==
  DescendWhile(s, new, current, parent, NotNil(s, current))

\* a link that puts a node of equal start to the right of its parent
LinkUnder_ties_right(s, new, parent, isNil) ==
  IF isNil = "R" THEN Raise(s, "RecursionError")
  ELSE IF isNil = "T" \/ parent = None THEN [s EXCEPT !.root = new]
  ELSE IF Nd(s, new).start < Nd(s, parent).start THEN SetF(s, parent, "left", new)
  ELSE SetF(s, parent, "right", new)

\* insert, lines 185-190, isNil being the outcome of parent == self.nil
LinkUnder(s, new, parent, isNil) ==
  IF isNil = "R" THEN Raise(s, "RecursionError")
  ELSE IF isNil = "T" \/ parent = None THEN [s EXCEPT !.root = new]
  ELSE IF Nd(s, new).start <= Nd(s, parent).start THEN SetF(s, parent, "left", new)
  ELSE SetF(s, parent, "right", new)

\* lines 185-190
LinkTest(s, new, parent) == LinkUnder(s, new, parent, PyEq(s, parent, NIL))

\* insert, lines 183-190: new_node.parent = parent and the link from parent
Link(s, new, parent) ==
  IF s.err # "ok" THEN s
  ELSE LinkTest(SetF(s, new, "parent", parent), new, parent)

\* lines 183-190 after the descent d
LinkAt(d, new) == Link(d.s, new, d.parent)

\* insert, lines 193-196: max_end of the new node and of all its ancestors
RECURSIVE UpdateAncestors(_, _)
\* line 196, after _update_max_end(node)
UpdateAncestorsOn(s, node) ==
  IF s.err # "ok" THEN s ELSE UpdateAncestors(s, Nd(s, node).parent)

\* lines 194-196, more being the outcome of the loop test
UpdateAncestorsWhile(s, node, more) ==
  IF more = "R" THEN Raise(s, "RecursionError")
  ELSE IF more = "F" THEN s
  ELSE UpdateAncestorsOn(UpdateMaxEnd(s, node), node)

UpdateAncestors(s, node) ==
  IF s.err # "ok" THEN s
  ELSE UpdateAncestorsWhile(s, node, NotNil(s, node))

\* insert, lines 165-168: the new node, allocated at the end of the heap
Allocate(s, start, end, slot_id) ==
  [s EXCEPT !.nodes = Append(@, [IntervalNode(start, end, slot_id, end)
                                   EXCEPT !.left = NIL, !.right = NIL, !.parent = NIL])]

\* insert, line 199: self.size += 1, reached only if nothing was raised
CountNode(s) == IF s.err # "ok" THEN s ELSE [s EXCEPT !.size = @ + 1]

\* insert, lines 170-199, new being the node allocated last
InsertNode(s, new) ==
  CountNode(InsertFixup(UpdateAncestors(LinkAt(Descend(s, new, s.root, NIL), new), new), new))

\* insert(start, end, slot_id) on tree t: the interpreter state it ends in
insert(t, start, end, slot_id) ==
  InsertNode(Allocate(Enter(t), start, end, slot_id), Len(t.nodes) + 1)

\* "node is None or node == self.nil" as the queries test it.  The comparison
\* with the sentinel ends at slot_id (the sentinel's is -1), so it never raises.
IsLeaf(t, p) == NotNil(Enter(t), p) # "T"

\* find_overlapping, the inner search(node): the nodes it appends, in order
RECURSIVE search(_, _, _, _)
search(t, node, start, end) ==
  IF IsLeaf(t, node) THEN << >>
  ELSE LET n == t.nodes[node]
           here == IF overlaps_with(n, start, end) THEN <<node>> ELSE << >>
           l == IF ~IsLeaf(t, n.left) /\ Nd(t, n.left).max_end > start
                THEN search(t, n.left, start, end) ELSE << >>
           r == IF ~IsLeaf(t, n.right) /\ n.start < end
                THEN search(t, n.right, start, end) ELSE << >>
       IN here \o l \o r

\* the nodes whose slot_id find_overlapping(start, end) returns
FoundNodes(t, start, end) ==
  IF t.root # None THEN search(t, t.root, start, end) ELSE << >>

\* find_overlapping(start, end): the list of slot_id
SlotIds(t, f) == [i \in 1..Len(f) |-> t.nodes[f[i]].slot_id]
find_overlapping(t, start, end) == SlotIds(t, FoundNodes(t, start, end))

\* get_all_intervals, the inner inorder(node)
RECURSIVE inorder(_, _)
inorder(t, node) ==
  IF IsLeaf(t, node) THEN << >>
  ELSE LET n == t.nodes[node] IN
       inorder(t, n.left) \o << <<n.start, n.end, n.slot_id>> >> \o inorder(t, n.right)

\* the order of Python tuples (start, end, slot_id): lexicographic
TupleLe(a, b) ==
  \/ a[1] < b[1]
  \/ a[1] = b[1] /\ a[2] < b[2]
  \/ a[1] = b[1] /\ a[2] = b[2] /\ a[3] <= b[3]

\* sorted(result): a stable sort by the tuple order
RECURSIVE sorted(_)
sorted(q) ==
  IF q = << >> THEN << >>
  ELSE LET rest == sorted(Tail(q))
           x == Head(q)
           k == Cardinality({i \in 1..Len(rest) : ~TupleLe(x, rest[i])})
       IN SubSeq(rest, 1, k) \o <<x>> \o SubSeq(rest, k + 1, Len(rest))

\* a listing that returns the traversal as it is
get_all_intervals_unsorted(t) ==
  IF t.root # None THEN inorder(t, t.root) ELSE << >>

\* get_all_intervals()
get_all_intervals(t) ==
  sorted(IF t.root # None THEN inorder(t, t.root) ELSE << >>)

\* is_empty()
is_empty(t) == t.root = None \/ PyEq(Enter(t), t.root, NIL) = "T"

\* ------------------------------------------------- dates, times, records
\* A datetime.time is <<hour, minute>>; a datetime.date is a day number.  A
\* field of a raw record is a text (k = "date" or "time", with pad saying
\* whether its numbers are zero-padded, as "2024-01-05" and "09:00" are and
\* "2024-1-5" and "9:00" are not), an unparsable text (k = "bad"), a value
\* that is no string (k = "nonstr"), or absent from the mapping (k = "missing").
Text(k, a, b, pad) == [k |-> k, a |-> a, b |-> b, pad |-> pad]
DateText(d, pad) == Text("date", d, 0, pad)
TimeText(t, pad) == Text("time", t[1], t[2], pad)
BadText == Text("bad", 0, 0, TRUE)
NonStr == Text("nonstr", 0, 0, TRUE)
Missing == Text("missing", 0, 0, TRUE)

\* data[key] followed by datetime.strptime(value, fmt): the exception, or "ok"
ParseErr(x, k) ==
  IF x.k = "missing" THEN "KeyError"
  ELSE IF x.k = "nonstr" THEN "TypeError"
  ELSE IF x.k # k THEN "ValueError"
  ELSE "ok"

\* datetime.strptime(x, '%Y-%m-%d').date() and date.strftime('%Y-%m-%d')
strptime_date(x) == x.a
strftime_date(d) == DateText(d, TRUE)
\* datetime.strptime(x, '%H:%M').time() and time.strftime('%H:%M')
strptime_time(x) == <<x.a, x.b>>
strftime_time(t) == TimeText(t, TRUE)

\* the order of datetime.time values
TimeLt(a, b) == a[1] < b[1] \/ (a[1] = b[1] /\ a[2] < b[2])
TimeLe(a, b) == a = b \/ TimeLt(a, b)

\* _time_to_minutes and _minutes_to_time
time_to_minutes(t) == t[1] * 60 + t[2]
minutes_to_time(x) == <<x \div 60, x % 60>>

\* the first exception among the fields of a record, in evaluation order
FirstErr(errs) ==
  IF \A i \in 1..Len(errs) : errs[i] = "ok" THEN "ok"
  ELSE errs[CHOOSE i \in 1..Len(errs) : errs[i] # "ok" /\ \A j \in 1..(i - 1) : errs[j] = "ok"]

IdErr(x) == IF x = None THEN "KeyError" ELSE "ok"

\* Day.from_dict(data): the exception it raises, and the Day it returns
DayErr(data) ==
  FirstErr(<<IdErr(data.id), ParseErr(data.date, "date"),
             ParseErr(data.start, "time"), ParseErr(data.end, "time")>>)
Day_from_dict(data) ==
  [id |-> data.id, date |-> strptime_date(data.date),
   start |-> strptime_time(data.start), end |-> strptime_time(data.end)]

\* TimeSlot.from_dict(data)
SlotErr(data) ==
  FirstErr(<<IdErr(data.id), IdErr(data.day_id),
             ParseErr(data.start, "time"), ParseErr(data.end, "time")>>)
TimeSlot_from_dict(data) ==
  [id |-> data.id, day_id |-> data.day_id,
   start |-> strptime_time(data.start), end |-> strptime_time(data.end)]

\* TimeSlot.overlaps_with(other)
TimeSlot_overlaps_with(self, other) ==
  ~(TimeLe(self.end, other.start) \/ TimeLe(other.end, self.start))

\* the exception a list comprehension of from_dict calls ends with
BatchErr(batch, RecordErr(_)) ==
  FirstErr([i \in 1..Len(batch) |-> RecordErr(batch[i])])

\* -------------------------------------------------------- ScheduleManager
\* ScheduleManager.__init__: the two lists and the three dictionaries.  A
\* dictionary is a function on its keys.
NewManager ==
  [days |-> << >>, timeslots |-> << >>,
   day_by_date |-> << >>, day_by_id |-> << >>, interval_trees |-> << >>]

\* d[k] = v
Put(d, k, v) == (k :> v) @@ d

\* a rebuild that clears nothing
ClearIndexes_nothing(m) == m

\* _build_indexes, lines 347-349: the three clear() calls
ClearIndexes(m) ==
  [m EXCEPT !.day_by_date = << >>, !.day_by_id = << >>, !.interval_trees = << >>]

\* _build_indexes, lines 352-355: one round of the loop over self.days
IndexDay(m, day) ==
  [m EXCEPT !.day_by_date = Put(@, strftime_date(day.date), day),
            !.day_by_id = Put(@, day.id, day)]

\* _build_indexes, lines 358-371: one round of the loop over self.timeslots;
\* the result is the manager and the exception insert raised, if any
\* lines 365-366: the tree of the date, created empty if there is none
TreeFor(m, date_str) ==
  IF date_str \in DOMAIN m.interval_trees THEN m.interval_trees[date_str] ELSE NewTree
\* the dictionary holds the tree object as insert left it, s being the state
\* insert ended in
StoreTree(m, date_str, s) ==
  [m |-> [m EXCEPT !.interval_trees = Put(@, date_str, TreeOf(s))], err |-> s.err]
\* lines 363-371
InsertSlot(m, date_str, slot) ==
  StoreTree(m, date_str,
            insert(TreeFor(m, date_str), time_to_minutes(slot.start),
                   time_to_minutes(slot.end), slot.id))
\* a round that refuses a slot whose day_id names no day
IndexSlot_strict(m, slot) ==
  IF slot.day_id \notin DOMAIN m.day_by_id THEN [m |-> m, err |-> "KeyError"]
  ELSE InsertSlot(m, strftime_date(m.day_by_id[slot.day_id].date), slot)
IndexSlot(m, slot) ==
  IF slot.day_id \notin DOMAIN m.day_by_id THEN [m |-> m, err |-> "ok"]
  ELSE InsertSlot(m, strftime_date(m.day_by_id[slot.day_id].date), slot)

RECURSIVE IndexDays(_, _)
IndexDays(m, ds) ==
  IF ds = << >> THEN m ELSE IndexDays(IndexDay(m, Head(ds)), Tail(ds))

RECURSIVE IndexSlots(_, _)
\* the loop goes on after a round r unless insert raised
IndexSlotsOn(r, ss) == IF r.err # "ok" THEN r ELSE IndexSlots(r.m, ss)
IndexSlots(m, ss) ==
  IF ss = << >> THEN [m |-> m, err |-> "ok"]
  ELSE IndexSlotsOn(IndexSlot(m, Head(ss)), Tail(ss))

\* _build_indexes()
build_indexes(m) == IndexSlots(IndexDays(ClearIndexes(m), m.days), m.timeslots)

\* "except (KeyError, ValueError) as e: raise ValueError(...)"
Reraise(e) == IF e \in {"KeyError", "ValueError"} THEN "ValueError" ELSE e

\* an exception of _build_indexes passes through the except clause
Reraised(r) == [m |-> r.m, err |-> Reraise(r.err)]

ParseDays(days) == [i \in 1..Len(days) |-> Day_from_dict(days[i])]
ParseSlots(timeslots) == [i \in 1..Len(timeslots) |-> TimeSlot_from_dict(timeslots[i])]

\* set_data(days, timeslots): the manager it leaves and the exception it raises
set_data(m, days, timeslots) ==
  IF BatchErr(days, DayErr) # "ok"
  THEN [m |-> m, err |-> Reraise(BatchErr(days, DayErr))]
  ELSE IF BatchErr(timeslots, SlotErr) # "ok"
  THEN [m |-> [m EXCEPT !.days = ParseDays(days)],
        err |-> Reraise(BatchErr(timeslots, SlotErr))]
  ELSE Reraised(build_indexes([m EXCEPT !.days = ParseDays(days),
                                        !.timeslots = ParseSlots(timeslots)]))

\* what a query gives: the exception class with its message, or "ok" and the value
Ok(v) == [exc |-> "ok", msg |-> "", val |-> v]
Err(exc, msg, v) == [exc |-> exc, msg |-> msg, val |-> v]
NotLoaded(v) == Err("RuntimeError", "data not loaded", v)
DayNotFound(v) == Err("RuntimeError", "day not found", v)
BadDate(v) == Err("ValueError", "date format", v)
BadTime(v) == Err("ValueError", "time format", v)

\* a lookup that answers an unparsable date as it answers an unknown one
DayLookup_one_kind(m, date_str, v) ==
  IF m.days = << >> THEN NotLoaded(v)
  ELSE IF ParseErr(date_str, "date") # "ok" THEN DayNotFound(v)
  ELSE IF strftime_date(strptime_date(date_str)) \notin DOMAIN m.day_by_date THEN DayNotFound(v)
  ELSE Ok(v)

\* "if not self.days", _parse_date and _get_day_by_date as the four queries
\* start: the error they raise, or "ok"
DayLookup(m, date_str, v) ==
  IF m.days = << >> THEN NotLoaded(v)
  ELSE IF ParseErr(date_str, "date") # "ok" THEN BadDate(v)
  ELSE IF strftime_date(strptime_date(date_str)) \notin DOMAIN m.day_by_date THEN DayNotFound(v)
  ELSE Ok(v)

\* (start, end) minutes as a pair of '%H:%M' texts
TimePair(start, end) ==
  <<strftime_time(minutes_to_time(start)), strftime_time(minutes_to_time(end))>>

\* the list comprehension that ends get_busy_intervals and get_free_time
TimePairs(intervals) ==
  [i \in 1..Len(intervals) |-> TimePair(intervals[i][1], intervals[i][2])]

\* "not tree or tree.is_empty()" for tree = self.interval_trees.get(date_str)
NoTree(m, date_str) ==
  date_str \notin DOMAIN m.interval_trees \/ is_empty(m.interval_trees[date_str])

\* get_busy_intervals(date_str)
get_busy_intervals(m, date_str) ==
  LET look == DayLookup(m, date_str, << >>) IN
  IF look.exc # "ok" THEN look
  ELSE IF NoTree(m, date_str) THEN Ok(<< >>)
  ELSE Ok(TimePairs(get_all_intervals(m.interval_trees[date_str])))

\* get_free_time, lines 434-441: gaps and current_time after the intervals
RECURSIVE Gaps(_, _, _)
Gaps(intervals, gaps, current_time) ==
  IF intervals = << >> THEN [gaps |-> gaps, current_time |-> current_time]
  ELSE LET start == Head(intervals)[1]
           end == Head(intervals)[2]
       IN Gaps(Tail(intervals),
               IF current_time < start THEN Append(gaps, <<current_time, start>>) ELSE gaps,
               Max(current_time, end))

\* get_free_time, lines 443-444: the gap after the last interval
LastGap(g, day_end) ==
  IF g.current_time < day_end THEN Append(g.gaps, <<g.current_time, day_end>>) ELSE g.gaps

\* get_free_time(date_str)
get_free_time(m, date_str) ==
  LET look == DayLookup(m, date_str, << >>) IN
  IF look.exc # "ok" THEN look
  ELSE LET day == m.day_by_date[strftime_date(strptime_date(date_str))]
           day_start == time_to_minutes(day.start)
           day_end == time_to_minutes(day.end)
       IN
  IF NoTree(m, date_str) THEN Ok(<< <<strftime_time(day.start), strftime_time(day.end)>> >>)
  ELSE Ok(TimePairs(LastGap(Gaps(get_all_intervals(m.interval_trees[date_str]),
                                 << >>, day_start), day_end)))

\* an availability check that looks the day up before it compares the times
is_time_available_day_first(m, date_str, start_time_str, end_time_str) ==
  IF m.days = << >> THEN NotLoaded(FALSE)
  ELSE IF ParseErr(date_str, "date") # "ok" THEN BadDate(FALSE)
  ELSE IF ParseErr(start_time_str, "time") # "ok" \/ ParseErr(end_time_str, "time") # "ok"
       THEN BadTime(FALSE)
  ELSE IF strftime_date(strptime_date(date_str)) \notin DOMAIN m.day_by_date
       THEN DayNotFound(FALSE)
  ELSE IF TimeLe(strptime_time(end_time_str), strptime_time(start_time_str))
       THEN Err("ValueError", "start must be before end", FALSE)
  ELSE Ok(TRUE)

\* is_time_available(date_str, start_time_str, end_time_str)
is_time_available(m, date_str, start_time_str, end_time_str) ==
  IF m.days = << >> THEN NotLoaded(FALSE)
  ELSE IF ParseErr(date_str, "date") # "ok" THEN BadDate(FALSE)
  ELSE IF ParseErr(start_time_str, "time") # "ok" \/ ParseErr(end_time_str, "time") # "ok"
       THEN BadTime(FALSE)
  ELSE LET start_time == strptime_time(start_time_str)
           end_time == strptime_time(end_time_str)
       IN
  IF TimeLe(end_time, start_time) THEN Err("ValueError", "start must be before end", FALSE)
  ELSE IF strftime_date(strptime_date(date_str)) \notin DOMAIN m.day_by_date
       THEN DayNotFound(FALSE)
  ELSE LET day == m.day_by_date[strftime_date(strptime_date(date_str))] IN
  IF TimeLt(start_time, day.start) \/ TimeLt(day.end, end_time) THEN Ok(FALSE)
  ELSE IF NoTree(m, date_str) THEN Ok(TRUE)
  ELSE Ok(Len(find_overlapping(m.interval_trees[date_str],
                               time_to_minutes(start_time), time_to_minutes(end_time))) = 0)

\* find_free_slot, lines 486-495: the first free interval long enough, or None
NoTime == Text("none", 0, 0, TRUE)
RECURSIVE FirstFit(_, _)
FirstFit(free_intervals, duration_minutes) ==
  IF free_intervals = << >> THEN NoTime
  ELSE LET start_str == Head(free_intervals)[1]
           end_str == Head(free_intervals)[2]
           interval_duration == time_to_minutes(strptime_time(end_str))
                                  - time_to_minutes(strptime_time(start_str))
       IN IF interval_duration >= duration_minutes THEN start_str
          ELSE FirstFit(Tail(free_intervals), duration_minutes)

\* a search that takes the first free interval whatever its length
FirstFitIn_any_length(free, duration_minutes) ==
  IF free.exc # "ok" THEN Err(free.exc, free.msg, NoTime)
  ELSE Ok(IF free.val = << >> THEN NoTime ELSE free.val[1][1])

\* find_free_slot, lines 484-495, free being what get_free_time gave or raised
FirstFitIn(free, duration_minutes) ==
  IF free.exc # "ok" THEN Err(free.exc, free.msg, NoTime)
  ELSE Ok(FirstFit(free.val, duration_minutes))

\* a search that asks for the free time before it tests the duration
find_free_slot_lookup_first(m, date_str, duration_minutes) ==
  IF get_free_time(m, date_str).exc # "ok"
  THEN Err(get_free_time(m, date_str).exc, get_free_time(m, date_str).msg, NoTime)
  ELSE IF duration_minutes <= 0 THEN Err("ValueError", "duration must be positive", NoTime)
  ELSE Ok(FirstFit(get_free_time(m, date_str).val, duration_minutes))

\* find_free_slot(date_str, duration_minutes)
find_free_slot(m, date_str, duration_minutes) ==
  IF duration_minutes <= 0 THEN Err("ValueError", "duration must be positive", NoTime)
  ELSE FirstFitIn(get_free_time(m, date_str), duration_minutes)

\* ------------------------------------------------------------------ state
VARIABLES
  tree,     \* an IntervalTree object driven directly through its interface
  calls,    \* the insert calls made on tree, in order: <<start, end, slot_id,
            \* how the call ended ("ok" or the exception)>>
  last,     \* how the latest call on tree ended; "none" before the first
  manager,  \* the ScheduleManager object of main.py
  loadErr,  \* how the latest finished set_data ended: "none", "ok" or the exception
  loader,   \* the executor thread running set_data, statement by statement:
            \* where it is, its arguments, the list its loop walks, and the
            \* manager as it was when the call began
  reply,    \* the query the event loop has just answered, with its answer
  second    \* a second executor thread with a set_data call of its own: where
            \* it is and its arguments

treeVars == <<tree, calls, last>>
mgrVars == <<manager, loadErr, loader, reply, second>>
\* what a step of the first executor thread or of the event loop leaves alone
otherVars == <<tree, calls, last, second>>
vars == <<tree, calls, last, manager, loadErr, loader, reply, second>>

Idle == [pc |-> "idle", days |-> << >>, timeslots |-> << >>, iter |-> << >>, before |-> NewManager]
NoReply == [q |-> [op |-> "none"], res |-> [exc |-> "none"]]
NoCall == [pc |-> "idle", days |-> << >>, timeslots |-> << >>]

Init ==
  /\ tree = NewTree
  /\ calls = << >>
  /\ last = "none"
  /\ manager = NewManager
  /\ loadErr = "none"
  /\ loader = Idle
  /\ reply = NoReply
  /\ second = NoCall

DupInterval == <<1, 1, 1>>

\* ---------------------------------------------------------- tree workloads
\* the intervals a workload inserts: start <= end, as the interface asks
Intervals == {iv \in (0..MaxTime) \X (0..MaxTime) \X (1..MaxId) : iv[1] <= iv[2]}

\* one call tree.insert(start, end, slot_id)
InsertReturns(iv, s) ==
  /\ tree' = TreeOf(s)
  /\ calls' = Append(calls, <<iv[1], iv[2], iv[3], s.err>>)
  /\ last' = s.err
  /\ UNCHANGED mgrVars
InsertCall(iv) == InsertReturns(iv, insert(tree, iv[1], iv[2], iv[3]))

Insert ==
  /\ Len(calls) < MaxInserts
  /\ \E iv \in Intervals : InsertCall(iv)

Next == Insert

Spec == Init /\ [][Next]_vars

\* The duplicate-slot workload: DupPrefix copies of one interval, then any
\* intervals, MaxDupInserts calls in all.
InsertDup ==
  /\ Len(calls) < MaxDupInserts
  /\ \E iv \in Intervals :
       /\ Len(calls) < DupPrefix => iv = DupInterval
       /\ InsertCall(iv)

NextDup == InsertDup

SpecDup == Init /\ [][NextDup]_vars

\* -------------------------------------------------------- index workloads
Minutes == {0, 30}
TimePoints == (0..MaxHour) \X Minutes
FirstTime == <<0, 0>>
LastTime == <<MaxHour, 30>>
\* the working windows of the batches: the whole range, and one with room
\* before and after it
WideWindow == <<FirstTime, LastTime>>
InnerWindow == <<<<0, 30>>, <<MaxHour, 0>>>>
\* the window a batch gives the day with this id
WindowOf(id) == IF id % 2 = 1 THEN WideWindow ELSE InnerWindow

DayRecord(id, d, w) ==
  [id |-> id, date |-> DateText(d, TRUE),
   start |-> TimeText(w[1], TRUE), end |-> TimeText(w[2], TRUE)]
SlotRecord(id, day_id, start, end) ==
  [id |-> id, day_id |-> day_id,
   start |-> TimeText(start, TRUE), end |-> TimeText(end, TRUE)]

SeqsUpTo(S, n) == UNION {[1..k -> S] : k \in 0..n}

DayRecords == {DayRecord(id, d, WindowOf(id)) : id \in 1..MaxDayId, d \in 1..MaxDate}
DayBatches == SeqsUpTo(DayRecords, MaxDays)
\* the slots of a batch carry the identifiers 1, 2, ... in order; their times
\* are any two time points, in either order
SlotChoices == (1..MaxDayId) \X TimePoints \X TimePoints
SlotBatchOf(q) == [i \in 1..Len(q) |-> SlotRecord(i, q[i][1], q[i][2], q[i][3])]
SlotBatches == {SlotBatchOf(q) : q \in SeqsUpTo(SlotChoices, MaxSlots)}

\* one complete call set_data(days, timeslots), with no other thread running
LoadReturns(days, timeslots, r) ==
  /\ manager' = r.m
  /\ loadErr' = r.err
  /\ loader' = [Idle EXCEPT !.days = days, !.timeslots = timeslots, !.before = manager]
  /\ reply' = NoReply
  /\ UNCHANGED otherVars
Load(days, timeslots) == LoadReturns(days, timeslots, set_data(manager, days, timeslots))

\* the first load of a fresh manager
FirstLoad ==
  /\ loadErr = "none"
  /\ \E days \in DayBatches, timeslots \in SlotBatches : Load(days, timeslots)

NextIndex == FirstLoad

SpecIndex == Init /\ [][NextIndex]_vars

\* --------------------------------------------------------- load workloads
\* Batches with well-formed and malformed records: a day and a slot record
\* with a missing field, with an unparsable text, and with a value that is
\* not a text.
Day1 == DayRecord(1, 1, WideWindow)
Day2 == DayRecord(2, 2, InnerWindow)
Slot1 == SlotRecord(1, 1, <<0, 0>>, <<0, 30>>)
Slot2 == SlotRecord(2, 2, <<0, 30>>, <<MaxHour, 0>>)
BadDays == {[Day2 EXCEPT !.date = Missing], [Day2 EXCEPT !.date = BadText],
            [Day2 EXCEPT !.start = NonStr]}
BadSlots == {[Slot2 EXCEPT !.day_id = None], [Slot2 EXCEPT !.start = BadText],
             [Slot2 EXCEPT !.end = NonStr]}
GoodDayBatches == {<< >>, <<Day1>>, <<Day1, Day2>>}
GoodSlotBatches == {<< >>, <<Slot1>>, <<Slot1, Slot2>>}
LoadDayBatches == GoodDayBatches \cup {<<Day1, d>> : d \in BadDays}
LoadSlotBatches == GoodSlotBatches \cup {<<Slot1, x>> : x \in BadSlots}

\* any number of loads, one after the other
LoadAgain ==
  \E days \in LoadDayBatches, timeslots \in LoadSlotBatches : Load(days, timeslots)

NextLoad == LoadAgain

SpecLoad == Init /\ [][NextLoad]_vars

\* ---------------------------------------------- load and queries in threads
\* main.py hands set_data to an executor thread (run_in_executor) and answers
\* the queries on the event-loop thread; nothing locks the manager.  The
\* loader runs set_data one statement at a time, and a query runs between any
\* two of them.

\* the queries of the endpoints
Queries ==
  {[op |-> o, date |-> DateText(d, TRUE), a |-> TimeText(FirstTime, TRUE),
    b |-> TimeText(<<0, 30>>, TRUE), dur |-> 30] :
     o \in {"busy", "free", "available", "find"}, d \in 1..MaxDate}

\* what the manager m answers to the query q
Answer(m, q) ==
  CASE q.op = "busy" -> get_busy_intervals(m, q.date)
    [] q.op = "free" -> get_free_time(m, q.date)
    [] q.op = "available" -> is_time_available(m, q.date, q.a, q.b)
    [] q.op = "find" -> find_free_slot(m, q.date, q.dur)

\* run_in_executor(None, schedule_manager.set_data, days, timeslots)
StartLoad ==
  /\ loader.pc = "idle"
  /\ \E days \in GoodDayBatches, timeslots \in GoodSlotBatches :
       loader' = [pc |-> "parse_days", days |-> days, timeslots |-> timeslots,
                  iter |-> << >>, before |-> manager]
  /\ reply' = NoReply
  /\ UNCHANGED <<manager, loadErr, otherVars>>

\* the exception leaves set_data
LoadFails(e) ==
  /\ loadErr' = Reraise(e)
  /\ loader' = [loader EXCEPT !.pc = "idle", !.iter = << >>]

\* set_data line 338: self.days = [Day.from_dict(day) for day in days]
ParseDaysStep ==
  /\ loader.pc = "parse_days"
  /\ IF BatchErr(loader.days, DayErr) # "ok"
     THEN LoadFails(BatchErr(loader.days, DayErr)) /\ UNCHANGED manager
     ELSE /\ manager' = [manager EXCEPT !.days = ParseDays(loader.days)]
          /\ loader' = [loader EXCEPT !.pc = "parse_slots"]
          /\ UNCHANGED loadErr
  /\ reply' = NoReply
  /\ UNCHANGED otherVars

\* set_data line 339: self.timeslots = [TimeSlot.from_dict(slot) ...]
ParseSlotsStep ==
  /\ loader.pc = "parse_slots"
  /\ IF BatchErr(loader.timeslots, SlotErr) # "ok"
     THEN LoadFails(BatchErr(loader.timeslots, SlotErr)) /\ UNCHANGED manager
     ELSE /\ manager' = [manager EXCEPT !.timeslots = ParseSlots(loader.timeslots)]
          /\ loader' = [loader EXCEPT !.pc = "clear_day_by_date"]
          /\ UNCHANGED loadErr
  /\ reply' = NoReply
  /\ UNCHANGED otherVars

\* _build_indexes lines 347-349, one clear() at a time; the loop over
\* self.days starts after the last
ClearStep ==
  /\ \/ /\ loader.pc = "clear_day_by_date"
        /\ manager' = [manager EXCEPT !.day_by_date = << >>]
        /\ loader' = [loader EXCEPT !.pc = "clear_day_by_id"]
     \/ /\ loader.pc = "clear_day_by_id"
        /\ manager' = [manager EXCEPT !.day_by_id = << >>]
        /\ loader' = [loader EXCEPT !.pc = "clear_interval_trees"]
     \/ /\ loader.pc = "clear_interval_trees"
        /\ manager' = [manager EXCEPT !.interval_trees = << >>]
        /\ loader' = [loader EXCEPT !.pc = "index_days", !.iter = manager.days]
  /\ reply' = NoReply
  /\ UNCHANGED <<loadErr, otherVars>>

\* _build_indexes lines 352-355: one round of "for day in self.days"
IndexDayStep ==
  /\ loader.pc = "index_days"
  /\ loader.iter # << >>
  /\ manager' = IndexDay(manager, Head(loader.iter))
  /\ loader' = [loader EXCEPT !.iter = Tail(@)]
  /\ reply' = NoReply
  /\ UNCHANGED <<loadErr, otherVars>>

\* the loop over self.days is over; the loop over self.timeslots starts
DaysIndexed ==
  /\ loader.pc = "index_days"
  /\ loader.iter = << >>
  /\ loader' = [loader EXCEPT !.pc = "index_slots", !.iter = manager.timeslots]
  /\ reply' = NoReply
  /\ UNCHANGED <<manager, loadErr, otherVars>>

\* _build_indexes lines 358-371: one round of "for slot in self.timeslots"
IndexSlotDone(r) ==
  /\ manager' = r.m
  /\ IF r.err # "ok" THEN LoadFails(r.err)
     ELSE loader' = [loader EXCEPT !.iter = Tail(@)] /\ UNCHANGED loadErr
IndexSlotStep ==
  /\ loader.pc = "index_slots"
  /\ loader.iter # << >>
  /\ IndexSlotDone(IndexSlot(manager, Head(loader.iter)))
  /\ reply' = NoReply
  /\ UNCHANGED otherVars

\* set_data returns
Finish ==
  /\ loader.pc = "index_slots"
  /\ loader.iter = << >>
  /\ loadErr' = "ok"
  /\ loader' = [loader EXCEPT !.pc = "idle"]
  /\ reply' = NoReply
  /\ UNCHANGED <<manager, otherVars>>

\* a query that fetches the tree with setdefault(date_str, IntervalTree())
\* where the code calls get(date_str)
Query_creating_tree ==
  /\ \E q \in Queries :
       /\ reply' = [q |-> q, res |-> Answer(manager, q)]
       /\ manager' = [manager EXCEPT !.interval_trees =
                        IF q.date \in DOMAIN @ THEN @ ELSE Put(@, q.date, NewTree)]
  /\ UNCHANGED <<loadErr, loader, otherVars>>

\* an endpoint of main.py answers a query on the event-loop thread
Query ==
  /\ \E q \in Queries : reply' = [q |-> q, res |-> Answer(manager, q)]
  /\ UNCHANGED <<manager, loadErr, loader, otherVars>>

NextConc ==
  \/ StartLoad
  \/ ParseDaysStep
  \/ ParseSlotsStep
  \/ ClearStep
  \/ IndexDayStep
  \/ DaysIndexed
  \/ IndexSlotStep
  \/ Finish
  \/ Query

SpecConc == Init /\ [][NextConc]_vars

\* --------------------------------------------------- two loads in threads
\* Two requests (main.py 216-224 reload, 293-296 set_data) each hand a load
\* to the executor; the default executor has several threads, and nothing in
\* main.py or core.py locks the manager.  The first call runs one statement
\* at a time, as above; the second call runs between any two of its
\* statements, here without being preempted itself.

\* both requests arrive: two run_in_executor calls, one batch each
BothLoadsStart ==
  /\ loadErr = "none"
  /\ loader.pc = "idle"
  /\ second.pc = "idle"
  /\ \E days \in GoodDayBatches, timeslots \in GoodSlotBatches :
       loader' = [pc |-> "parse_days", days |-> days, timeslots |-> timeslots,
                  iter |-> << >>, before |-> manager]
  /\ \E days \in GoodDayBatches, timeslots \in GoodSlotBatches :
       second' = [pc |-> "ready", days |-> days, timeslots |-> timeslots]
  /\ reply' = NoReply
  /\ UNCHANGED <<manager, loadErr, treeVars>>

\* set_data in the second thread, from its first statement to its return
SecondLoadReturns(r) ==
  /\ manager' = r.m
  /\ second' = [second EXCEPT !.pc = IF r.err = "ok" THEN "done" ELSE "failed"]
SecondLoad ==
  /\ second.pc = "ready"
  /\ SecondLoadReturns(set_data(manager, second.days, second.timeslots))
  /\ UNCHANGED <<loadErr, loader, reply, treeVars>>

NextTwoLoads ==
  \/ BothLoadsStart
  \/ SecondLoad
  \/ ParseDaysStep
  \/ ParseSlotsStep
  \/ ClearStep
  \/ IndexDayStep
  \/ DaysIndexed
  \/ IndexSlotStep
  \/ Finish

SpecTwoLoads == Init /\ [][NextTwoLoads]_vars

\* ------------------------------------------------------ tree: the claims
\* the nodes reachable from the root through left and right, the sentinel
\* and None left out
RECURSIVE ReachFrom(_, _, _)
ReachFrom(t, todo, seen) ==
  IF todo = {} THEN seen
  ELSE LET p == CHOOSE x \in todo : TRUE
           kids == {t.nodes[p].left, t.nodes[p].right} \ ({None, NIL} \cup seen \cup {p})
       IN ReachFrom(t, (todo \ {p}) \cup kids, seen \cup {p})
Reach(t) == ReachFrom(t, {t.root} \ {None, NIL}, {})

\* the query ranges the claims are tried on
QueryTimes == 0..(MaxTime + 1)

Range(q) == {q[i] : i \in 1..Len(q)}
Triple(c) == <<c[1], c[2], c[3]>>
AllCalls == [i \in 1..Len(calls) |-> Triple(calls[i])]
CompletedCalls == SelectSeq(calls, LAMBDA c : c[4] = "ok")
Returned == [i \in 1..Len(CompletedCalls) |-> Triple(CompletedCalls[i])]

\* the brute-force scan: the identifiers of the intervals of ivs that overlap
\* [qs, qe) in the half-open sense
Brute(ivs, qs, qe) ==
  {ivs[i][3] : i \in {j \in 1..Len(ivs) : ~(ivs[j][2] <= qs \/ ivs[j][1] >= qe)}}

\* C1: after every sequence of insert calls, find_overlapping(qs, qe) returns,
\* as a set, exactly the identifiers of the stored intervals (s, e) with
\* not (e <= qs or s >= qe) -- the stored intervals being those of all insert
\* calls, or those of the calls that returned.
C1_FindOverlappingIsBruteForce ==
  \A qs \in QueryTimes, qe \in QueryTimes :
    LET found == Range(find_overlapping(tree, qs, qe)) IN
    found = Brute(AllCalls, qs, qe) \/ found = Brute(Returned, qs, qe)

\* C2: after every completed insert, every node n reachable from the root has
\* max_end = max(n.end, max_end of its non-sentinel children).
MaxEndExact(t, p) ==
  LET n == t.nodes[p]
      l == IF n.left \in {None, NIL} THEN n.end ELSE t.nodes[n.left].max_end
      r == IF n.right \in {None, NIL} THEN n.end ELSE t.nodes[n.right].max_end
  IN n.max_end = Max(n.end, Max(l, r))
C2_MaxEndAfterCompletedInsert ==
  last = "ok" => \A p \in Reach(tree) : MaxEndExact(tree, p)

\* C7: get_all_intervals returns exactly the multiset of inserted triples,
\* one entry per insert (per insert call, or per call that returned), in
\* non-decreasing order of start.
C7_AllIntervalsAreTheInserts ==
  LET all == get_all_intervals(tree) IN
  /\ all = sorted(AllCalls) \/ all = sorted(Returned)
  /\ \A i \in 1..(Len(all) - 1) : all[i][1] <= all[i + 1][1]

\* C8: insert never raises for start <= end, and after k inserts size = k,
\* exactly k nodes are reachable from the root, and is_empty() is false iff k > 0.
C8_InsertNeverRaises ==
  /\ last \in {"none", "ok"}
  /\ tree.size = Len(calls)
  /\ Cardinality(Reach(tree)) = Len(calls)
  /\ is_empty(tree) <=> Len(calls) = 0

\* C9: a stored interval is never returned for a query range that starts at
\* its end or ends at its start, whatever else the range returns; and
\* TimeSlot.overlaps_with is symmetric and false for two slots that touch.
SlotValues == {TimeSlot_from_dict(SlotRecord(1, q[1], q[2], q[3])) : q \in SlotChoices}
C9_TouchingNeverOverlaps ==
  /\ \A p \in 1..Len(tree.nodes), x \in QueryTimes :
       /\ p \notin Range(FoundNodes(tree, tree.nodes[p].end, x))
       /\ p \notin Range(FoundNodes(tree, x, tree.nodes[p].start))
  /\ \A a \in SlotValues, b \in SlotValues :
       /\ TimeSlot_overlaps_with(a, b) <=> TimeSlot_overlaps_with(b, a)
       /\ a.end = b.start => ~TimeSlot_overlaps_with(a, b)

\* a range that starts at the end of a stored interval of positive length and
\* returns other intervals, and a range that ends at the start of one and does
C9_TouchingQueried ==
  /\ \E p \in 1..Len(tree.nodes), x \in QueryTimes :
       /\ tree.nodes[p].start < tree.nodes[p].end
       /\ FoundNodes(tree, tree.nodes[p].end, x) # << >>
  /\ \E p \in 1..Len(tree.nodes), x \in QueryTimes :
       /\ tree.nodes[p].start < tree.nodes[p].end
       /\ FoundNodes(tree, x, tree.nodes[p].start) # << >>

\* ----------------------------------------------------- index: the claims
\* the dates a batch can name, as the padded text a caller passes
DateTexts == {DateText(d, TRUE) : d \in 1..MaxDate}
TimeTexts == {TimeText(p, TRUE) : p \in TimePoints}

\* a pair of '%H:%M' texts as a pair of minutes
Mins(pair) ==
  <<time_to_minutes(strptime_time(pair[1])), time_to_minutes(strptime_time(pair[2]))>>
MinuteRanges(list) == {Mins(list[i]) : i \in 1..Len(list)}

\* C5: for every loaded date, the minute ranges returned by busy and free
\* together are exactly [day.start, day.end]: every interval lies inside the
\* working window, every minute of the window is inside a busy or a free
\* interval, and a day with no slots has free = [(day.start, day.end)].
C5_BusyAndFreeCoverTheWindow ==
  loadErr = "ok" =>
    \A ds \in DateTexts :
      LET busy == get_busy_intervals(manager, ds)
          free == get_free_time(manager, ds)
      IN (busy.exc = "ok" /\ free.exc = "ok") =>
           LET day == manager.day_by_date[ds]
               lo == time_to_minutes(day.start)
               hi == time_to_minutes(day.end)
               both == MinuteRanges(busy.val) \cup MinuteRanges(free.val)
           IN /\ \A iv \in both : lo <= iv[1] /\ iv[2] <= hi
              /\ \A t \in lo..(hi - 1) : \E iv \in both : iv[1] <= t /\ t < iv[2]
              /\ busy.val = << >> =>
                   free.val = << <<strftime_time(day.start), strftime_time(day.end)>> >>

\* C6: for every loaded date, the free intervals are non-empty, ascending and
\* pairwise non-overlapping, and none of them overlaps a busy interval of
\* that date in the half-open sense.
C6_FreeIntervalsWellFormed ==
  loadErr = "ok" =>
    \A ds \in DateTexts :
      LET busy == get_busy_intervals(manager, ds)
          free == get_free_time(manager, ds)
      IN (busy.exc = "ok" /\ free.exc = "ok") =>
           /\ \A i \in 1..Len(free.val) : Mins(free.val[i])[1] < Mins(free.val[i])[2]
           /\ \A i \in 1..Len(free.val), j \in 1..Len(free.val) :
                i < j => Mins(free.val[i])[2] <= Mins(free.val[j])[1]
           /\ \A f \in MinuteRanges(free.val), b \in MinuteRanges(busy.val) :
                ~(f[1] < b[2] /\ b[1] < f[2])

\* the nodes of a tree that hold a zero-duration interval
ZeroNodes(t) == {p \in 1..Len(t.nodes) : t.nodes[p].start = t.nodes[p].end}
MinuteTimes == {time_to_minutes(p) : p \in TimePoints}
\* the manager the same batch gives once its zero-duration slots are left out
WithoutZeroSlots ==
  build_indexes([manager EXCEPT !.timeslots = SelectSeq(@, LAMBDA x : x.start # x.end)]).m
\* the zero-duration slot is what makes the request unavailable
MadeUnavailable(ds, a, b) ==
  /\ is_time_available(manager, ds, a, b) = Ok(FALSE)
  /\ is_time_available(WithoutZeroSlots, ds, a, b) = Ok(TRUE)

C3_FailedLoadLeavesState ==
  loadErr \notin {"none", "ok"} =>
    /\ manager = loader.before
    /\ \A q \in Queries : Answer(manager, q) = Answer(loader.before, q)

\* the complete index the load in progress leaves
AfterLoad == set_data(loader.before, loader.days, loader.timeslots).m

\* C4: a query answered while a load is running gets the answer of the
\* complete index before the load or of the complete index after it.
C4_QuerySeesBeforeOrAfter ==
  (reply.q.op # "none" /\ loader.pc # "idle") =>
    reply.res \in {Answer(loader.before, reply.q), Answer(AfterLoad, reply.q)}

\* ---------------------------------------------------- queries: the claims
\* the date strings '%Y-%m-%d' parses: with and without zero padding
AnyDateTexts == {DateText(d, pad) : d \in 1..MaxDate, pad \in BOOLEAN}

\* The batch of the latest load, read as the claims read it.  A date string
\* is known when a day record of the batch has the date it denotes; the day
\* of a date is the last such record; a slot resolves to the last day record
\* that has its day_id.
DaysOn(ds) == {i \in 1..Len(loader.days) : loader.days[i].date.a = ds.a}
KnownDate(ds) == ds.k = "date" /\ DaysOn(ds) # {}
LastOf(S) == CHOOSE i \in S : \A j \in S : j <= i
DayOn(ds) == loader.days[LastOf(DaysOn(ds))]
DaysWithId(id) == {i \in 1..Len(loader.days) : loader.days[i].id = id}
Resolves(slot) == DaysWithId(slot.day_id) # {}
SlotsOn(ds) ==
  {i \in 1..Len(loader.timeslots) :
     /\ Resolves(loader.timeslots[i])
     /\ loader.days[LastOf(DaysWithId(loader.timeslots[i].day_id))].date.a = ds.a}

\* a record's start and end as minutes
RecordMins(r) == Mins(<<r.start, r.end>>)
\* how many entries of a list of '%H:%M' pairs denote the minutes pr
CountMins(list, pr) == Cardinality({i \in 1..Len(list) : Mins(list[i]) = pr})
MinutePairs == MinuteTimes \X MinuteTimes

\* the busy list of each known date among dates is one pair per slot that
\* resolves to a day of the date, ascending by start
BusyListsTheSlots(dates) ==
  loadErr = "ok" =>
    \A ds \in dates :
      KnownDate(ds) =>
        LET busy == get_busy_intervals(manager, ds) IN
        /\ busy.exc = "ok"
        /\ \A pr \in MinutePairs :
             CountMins(busy.val, pr)
               = Cardinality({i \in SlotsOn(ds) : RecordMins(loader.timeslots[i]) = pr})
        /\ \A i \in 1..(Len(busy.val) - 1) : Mins(busy.val[i])[1] <= Mins(busy.val[i + 1])[1]
        /\ SlotsOn(ds) = {} => busy.val = << >>

\* C11: after a successful load, busyIntervals(date) for a known date returns
\* exactly one (start, end) pair for every loaded slot whose day_id resolves
\* to a day of that date, no slot missing and none from another date, in
\* ascending order of start; for a day with no slots it returns the empty list.
C11_BusyListsTheSlotsOfTheDate == BusyListsTheSlots(AnyDateTexts)

\* isAvailable on each known date among dates, for start < end: false outside
\* the working window of the day of the date, otherwise true exactly when no
\* slot of the date overlaps [start, end) in the half-open sense
AvailableIffNoOverlap(dates) ==
  loadErr = "ok" =>
    \A ds \in dates, a \in TimeTexts, b \in TimeTexts :
      (KnownDate(ds) /\ Mins(<<a, b>>)[1] < Mins(<<a, b>>)[2]) =>
        LET q == Mins(<<a, b>>)
            w == RecordMins(DayOn(ds))
            outside == q[1] < w[1] \/ q[2] > w[2]
            overlap == \E i \in SlotsOn(ds) :
                         LET x == RecordMins(loader.timeslots[i])
                         IN ~(x[2] <= q[1] \/ x[1] >= q[2])
        IN is_time_available(manager, ds, a, b) = Ok(~outside /\ ~overlap)

\* C12: for a loaded index, a known date and start < end, isAvailable returns
\* false if start < day.start or end > day.end, and otherwise true if and
\* only if no slot stored for that date overlaps [start, end) in the
\* half-open sense.
C12_AvailableIffNoOverlap == AvailableIffNoOverlap(AnyDateTexts)

\* the durations asked for, in minutes
Durations == {30, 60, 90}
\* the length of a free interval given as a pair of '%H:%M' texts
Length(pair) == Mins(pair)[2] - Mins(pair)[1]
\* the free intervals of a list that are long enough
Fits(list, d) == {i \in 1..Len(list) : Length(list[i]) >= d}

\* C13: for a loaded index, a known date and duration > 0, findFreeSlot
\* returns the start of the first, and earliest, free interval of
\* freeIntervals(date) whose length is >= duration, and returns none exactly
\* when no single free interval is that long.
C13_FirstFittingFreeInterval ==
  loadErr = "ok" =>
    \A ds \in AnyDateTexts, d \in Durations :
      KnownDate(ds) =>
        LET free == get_free_time(manager, ds)
            found == find_free_slot(manager, ds, d)
            fits == Fits(free.val, d)
        IN /\ free.exc = "ok"
           /\ found.exc = "ok"
           /\ found.val = NoTime <=> fits = {}
           /\ fits # {} =>
                LET first == CHOOSE i \in fits : \A j \in fits : i <= j IN
                /\ found.val = free.val[first][1]
                /\ \A j \in fits : Mins(free.val[first])[1] <= Mins(free.val[j])[1]

\* one date has two free intervals that together reach the duration while
\* neither does, and the search finds none; another has a first free interval
\* too short, and the search returns the start of the second
C13_ShortGapsSearched ==
  /\ loadErr = "ok"
  /\ \E ds \in DateTexts, d \in Durations :
       LET free == get_free_time(manager, ds) IN
       /\ KnownDate(ds)
       /\ Len(free.val) = 2
       /\ Length(free.val[1]) + Length(free.val[2]) >= d
       /\ find_free_slot(manager, ds, d) = Ok(NoTime)
  /\ \E ds \in DateTexts, d \in Durations :
       LET free == get_free_time(manager, ds) IN
       /\ KnownDate(ds)
       /\ Len(free.val) = 2
       /\ Length(free.val[1]) < d
       /\ free.val[1][1] # free.val[2][1]
       /\ find_free_slot(manager, ds, d) = Ok(free.val[2][1])

\* ------------------------------------------------------- loads: the claims
\* a raw record is malformed when a required field is missing, a date or
\* time text does not parse, or a field is no text
MalformedDay(r) ==
  r.id = None \/ r.date.k # "date" \/ r.start.k # "time" \/ r.end.k # "time"
MalformedSlot(r) ==
  r.id = None \/ r.day_id = None \/ r.start.k # "time" \/ r.end.k # "time"
MalformedBatch(days, timeslots) ==
  \/ \E i \in 1..Len(days) : MalformedDay(days[i])
  \/ \E i \in 1..Len(timeslots) : MalformedSlot(timeslots[i])

\* C14: load fails with the format error (the ValueError of set_data), and
\* with no other kind of error, whenever a day or slot record of the batch
\* is malformed; it succeeds only if every record of both batches is well
\* formed.
C14_MalformedBatchIsFormatError ==
  loadErr # "none" =>
    /\ MalformedBatch(loader.days, loader.timeslots) => loadErr = "ValueError"
    /\ loadErr = "ok" => ~MalformedBatch(loader.days, loader.timeslots)

\* the queries that take a date alone or a date and a range, on every date
\* string: zero-padded, not padded, unparsable
DateQueries ==
  {[op |-> o, date |-> ds, a |-> a, b |-> b, dur |-> 30] :
     o \in {"busy", "free", "available"}, ds \in AnyDateTexts \cup {BadText},
     a \in {TimeText(FirstTime, TRUE)}, b \in {TimeText(FirstTime, TRUE), TimeText(LastTime, TRUE)}}
IsNotLoaded(res) == res.exc = "RuntimeError" /\ res.msg = "data not loaded"

\* C15: busyIntervals, freeIntervals and isAvailable fail with the
\* not-loaded error if and only if the most recent successful load installed
\* no days: always before the first load, after a successful load exactly
\* when its day batch was empty, and after a failed load exactly when they
\* did before it.
C15_NotLoadedIffNoDaysInstalled ==
  \A q \in DateQueries :
    /\ loadErr = "none" => IsNotLoaded(Answer(manager, q))
    /\ loadErr = "ok" => (IsNotLoaded(Answer(manager, q)) <=> loader.days = << >>)
    /\ loadErr \notin {"none", "ok"} =>
         (IsNotLoaded(Answer(manager, q)) <=> IsNotLoaded(Answer(loader.before, q)))

\* -------------------------------------------------- errors: the claims
\* the index holds the days of a successful load of at least one day
Loaded == loadErr = "ok" /\ loader.days # << >>
\* the parsable date strings that name no day of the batch
UnknownDates == {ds \in AnyDateTexts : ~KnownDate(ds)}
IsDayNotFound(res) == res.exc = "RuntimeError" /\ res.msg = "day not found"
IsBadDate(res) == res.exc = "ValueError" /\ res.msg = "date format"
IsInvalidRange(res) == res.exc = "ValueError" /\ res.msg = "start must be before end"
IsInvalidDuration(res) == res.exc = "ValueError" /\ res.msg = "duration must be positive"

\* C16 as stated: on a loaded index, busyIntervals and freeIntervals fail
\* with the one error kind DayNotFoundError both for a date string that does
\* not parse and for a well-formed date with no matching working day.
C16_BadAndUnknownDateOneKind ==
  Loaded =>
    \A ds \in UnknownDates \cup {BadText} :
      /\ IsDayNotFound(get_busy_intervals(manager, ds))
      /\ IsDayNotFound(get_free_time(manager, ds))

\* C16 amended: on a loaded index, busyIntervals and freeIntervals fail with
\* two error kinds: with the date-format error (a ValueError, as the
\* invalid-range error is) for a date string that does not parse, and with
\* the day-not-found error (a RuntimeError, as the not-loaded error is, told
\* apart by its message) for a well-formed date with no matching working day.
C16_BadDateAndUnknownDateDiffer ==
  Loaded =>
    /\ IsBadDate(get_busy_intervals(manager, BadText))
    /\ IsBadDate(get_free_time(manager, BadText))
    /\ \A ds \in UnknownDates :
         /\ IsDayNotFound(get_busy_intervals(manager, ds))
         /\ IsDayNotFound(get_free_time(manager, ds))
         /\ get_busy_intervals(manager, ds).exc # get_busy_intervals(manager, BadText).exc
         /\ ~IsNotLoaded(get_busy_intervals(manager, ds))
         /\ ~IsInvalidRange(get_busy_intervals(manager, ds))

\* a loaded index asked for a date it does not hold and for an unparsable one
C16_BadAndUnknownDateQueried ==
  /\ Loaded
  /\ \E ds \in UnknownDates : IsDayNotFound(get_free_time(manager, ds))
  /\ \E ds \in AnyDateTexts : get_busy_intervals(manager, ds).exc = "ok"
  /\ IsBadDate(get_busy_intervals(manager, BadText))

\* C17: on a loaded index with a parsable date, isAvailable(date, start, end)
\* with start >= end fails with the invalid-range error and returns no
\* boolean, whether or not the date names a known working day.
C17_EmptyRangeIsInvalid ==
  Loaded =>
    \A ds \in AnyDateTexts, a \in TimeTexts, b \in TimeTexts :
      Mins(<<a, b>>)[1] >= Mins(<<a, b>>)[2] =>
        IsInvalidRange(is_time_available(manager, ds, a, b))

\* a loaded index asked about an empty and about a reversed range, on a
\* known date and on an unknown one; a proper range on the known date is
\* answered with a boolean
C17_EmptyRangeQueried ==
  /\ Loaded
  /\ \E ds \in AnyDateTexts, a \in TimeTexts, b \in TimeTexts :
       /\ KnownDate(ds)
       /\ Mins(<<a, b>>)[1] > Mins(<<a, b>>)[2]
       /\ IsInvalidRange(is_time_available(manager, ds, a, b))
       /\ is_time_available(manager, ds, b, a).exc = "ok"
  /\ \E ds \in UnknownDates, a \in TimeTexts :
       /\ IsInvalidRange(is_time_available(manager, ds, a, a))
       /\ IsDayNotFound(is_time_available(manager, ds, TimeText(FirstTime, TRUE),
                                          TimeText(LastTime, TRUE)))

\* the durations that are not positive
NonPositive == {-30, 0}

\* C18: findFreeSlot(date, duration) with duration <= 0 fails with the
\* invalid-duration error in every state, loaded or not, after a failed load
\* or a successful one, for a known, an unknown and an unparsable date, and
\* returns neither a start time nor none.
C18_NonPositiveDurationIsInvalid ==
  \A ds \in AnyDateTexts \cup {BadText}, d \in NonPositive :
    IsInvalidDuration(find_free_slot(manager, ds, d))

\* a loaded index on which a positive duration finds a start time on a known
\* date and raises for an unknown and for an unparsable one, while duration 0
\* is refused on all three
C18_NonPositiveDurationQueried ==
  /\ Loaded
  /\ \E ds \in AnyDateTexts :
       /\ find_free_slot(manager, ds, 30).exc = "ok"
       /\ find_free_slot(manager, ds, 30).val # NoTime
       /\ IsInvalidDuration(find_free_slot(manager, ds, 0))
  /\ \E ds \in UnknownDates :
       /\ IsDayNotFound(find_free_slot(manager, ds, 30))
       /\ IsInvalidDuration(find_free_slot(manager, ds, 0))
  /\ IsBadDate(find_free_slot(manager, BadText, 30))
  /\ IsInvalidDuration(find_free_slot(manager, BadText, -30))

\* ------------------------------------------------- rebuilds: the claims
\* every query of the four kinds, on every date string
AllQueries ==
  DateQueries \cup
  {[op |-> "find", date |-> ds, a |-> TimeText(FirstTime, TRUE),
    b |-> TimeText(LastTime, TRUE), dur |-> d] :
     ds \in AnyDateTexts \cup {BadText}, d \in Durations}

\* a fresh index that loaded only the batch of the latest load
FreshLoad == set_data(NewManager, loader.days, loader.timeslots).m

\* C19: a successful load replaces the whole index: whatever was loaded
\* before, the day list, the slot list, the two maps and the trees are those
\* of a fresh index that loaded only this batch, and every query answers as
\* on that fresh index; loading a batch twice gives what loading it once gives.
C19_LoadReplacesTheIndex ==
  loadErr = "ok" =>
    /\ manager = FreshLoad
    /\ \A q \in AllQueries : Answer(manager, q) = Answer(FreshLoad, q)

\* a successful load of at least one day on an index that held a tree for a
\* date the new batch does not have
C19_LoadedOverAnotherBatch ==
  /\ loadErr = "ok"
  /\ manager.days # << >>
  /\ manager.interval_trees # << >>
  /\ \E ds \in DOMAIN loader.before.interval_trees : ds \notin DOMAIN manager.interval_trees

\* the slots of the batch whose day_id names no day of the batch
Unresolved == {i \in 1..Len(loader.timeslots) : ~Resolves(loader.timeslots[i])}
UnresolvedIds == {loader.timeslots[i].id : i \in Unresolved}
\* a fresh index that loaded the batch without those slots
LoadOfResolved == set_data(NewManager, loader.days, SelectSeq(loader.timeslots, Resolves)).m

\* the index m holds no node of an unresolved slot, and its maps, trees and
\* answers are those of the index fresh
DroppedAsIn(m, fresh) ==
  /\ \A ds \in DOMAIN m.interval_trees :
       \A p \in 1..Len(m.interval_trees[ds].nodes) :
         m.interval_trees[ds].nodes[p].slot_id \notin UnresolvedIds
  /\ m.interval_trees = fresh.interval_trees
  /\ m.day_by_date = fresh.day_by_date
  /\ \A q \in DateQueries : Answer(m, q) = Answer(fresh, q)

\* C20: a slot whose day_id matches no day of the batch does not make the
\* load fail and is in no tree of the index, and the trees, busy lists and
\* availability answers are those of the batch without the unresolved slots.
C20_UnresolvedSlotsAreDropped ==
  /\ loadErr \in {"none", "ok"}
  /\ loadErr = "ok" => DroppedAsIn(manager, LoadOfResolved)

\* a loaded batch with a slot that resolves, stored in a tree, and a slot
\* that does not
C20_UnresolvedSlotLoaded ==
  /\ loadErr = "ok"
  /\ Unresolved # {}
  /\ \E ds \in DOMAIN manager.interval_trees : manager.interval_trees[ds].size > 0

\* ----------------------------------------------- tree shape: the claims
\* a pointer to a node, neither None nor the sentinel
IsNode(p) == p \notin {None, NIL}
\* the nodes of the subtree under p, p included
Subtree(t, p) == ReachFrom(t, {p} \ {None, NIL}, {})

\* the numbers of black nodes on the paths from p down to a leaf, the leaf
\* counted; a path longer than the tree has nodes counts as -1
RECURSIVE BlackCounts(_, _, _)
BlackCounts(t, p, fuel) ==
  IF ~IsNode(p) THEN {1}
  ELSE IF fuel = 0 THEN {-1}
  ELSE LET own == IF t.nodes[p].color = BLACK THEN 1 ELSE 0 IN
       {own + c : c \in BlackCounts(t, t.nodes[p].left, fuel - 1)
                          \cup BlackCounts(t, t.nodes[p].right, fuel - 1)}

IsRed(t, p) == IsNode(p) /\ t.nodes[p].color = RED
RedBlack(t) ==
  /\ IsNode(t.root) => t.nodes[t.root].color = BLACK
  /\ \A p \in Reach(t) : IsRed(t, p) => ~IsRed(t, t.nodes[p].left) /\ ~IsRed(t, t.nodes[p].right)
  /\ Cardinality(BlackCounts(t, t.root, Len(t.nodes) + 1)) = 1
  /\ -1 \notin BlackCounts(t, t.root, Len(t.nodes) + 1)

\* C24: after every completed insert the tree is a valid red-black tree: the
\* root is black, no red node has a red child, and every path from the root
\* to a leaf passes through the same number of black nodes.
C24_RedBlackAfterCompletedInsert ==
  last = "ok" => RedBlack(tree)

\* every node under the root is the left or right child of its parent, the
\* root has no parent, and the starts of a left subtree are <= the start of
\* its root, those of a right subtree >=
ParentLinks(t) ==
  /\ IsNode(t.root) => ~IsNode(t.nodes[t.root].parent)
  /\ \A p \in Reach(t) :
       /\ IsNode(t.nodes[p].left) => t.nodes[t.nodes[p].left].parent = p
       /\ IsNode(t.nodes[p].right) => t.nodes[t.nodes[p].right].parent = p
Ordered(t) ==
  \A p \in Reach(t) :
    /\ \A c \in Subtree(t, t.nodes[p].left) : t.nodes[c].start <= t.nodes[p].start
    /\ \A c \in Subtree(t, t.nodes[p].right) : t.nodes[c].start >= t.nodes[p].start

\* C25: after any insert sequence the parent links are consistent (every
\* non-root node is the left or right child of its parent, the node on top
\* has no parent and is the root), every inserted node is under the root, and
\* for every node the starts in its left subtree are <= its start and the
\* starts in its right subtree are >= its start.
C25_RotationsKeepOrderAndLinks ==
  /\ ParentLinks(tree)
  /\ Ordered(tree)
  /\ Reach(tree) = 1..Len(tree.nodes)

\* no insert call has raised
NoRaise == \A i \in 1..Len(calls) : calls[i][4] = "ok"

\* the nodes under p in in-order, as far as fuel reaches
RECURSIVE InorderNodes(_, _, _)
InorderNodes(t, p, fuel) ==
  IF ~IsNode(p) \/ fuel = 0 THEN << >>
  ELSE InorderNodes(t, t.nodes[p].left, fuel - 1) \o <<p>>
         \o InorderNodes(t, t.nodes[p].right, fuel - 1)
Traversal(t) == InorderNodes(t, t.root, Len(t.nodes) + 1)

LaterInsertedFirst(t, q) ==
  \A i \in 1..Len(q), j \in 1..Len(q) :
    (i < j /\ t.nodes[q[i]].start = t.nodes[q[j]].start) => q[i] > q[j]

C23_ListedInTraversalOrder ==
  get_all_intervals(tree) = (IF tree.root # None THEN inorder(tree, tree.root) ELSE << >>)

\* the triples of the list q are the triples of the nodes ns, each as often
SameTriples(t, q, ns) ==
  \A x \in Range(q) \cup {<<t.nodes[p].start, t.nodes[p].end, t.nodes[p].slot_id>> : p \in ns} :
    Cardinality({i \in 1..Len(q) : q[i] = x})
      = Cardinality({p \in ns : <<t.nodes[p].start, t.nodes[p].end, t.nodes[p].slot_id>> = x})

\* C23 amended: get_all_intervals lists the intervals of the nodes under the
\* root sorted ascending by the whole triple (start, end, slot_id): intervals
\* of equal start stand in the order of their end, then of their slot_id,
\* whatever the order in which the traversal meets their nodes.
C23_ListedInTupleOrder ==
  /\ SameTriples(tree, get_all_intervals(tree), Reach(tree))
  /\ \A i \in 1..(Len(get_all_intervals(tree)) - 1) :
       TupleLe(get_all_intervals(tree)[i], get_all_intervals(tree)[i + 1])

\* a tree whose traversal meets two intervals of equal start in the order
\* opposite to that of their ends
C23_TraversalOutOfTupleOrder ==
  /\ NoRaise
  /\ \E i \in 1..(Len(Traversal(tree)) - 1) :
       /\ tree.nodes[Traversal(tree)[i]].start = tree.nodes[Traversal(tree)[i + 1]].start
       /\ tree.nodes[Traversal(tree)[i]].end > tree.nodes[Traversal(tree)[i + 1]].end
  /\ Len(get_all_intervals(tree)) = Len(tree.nodes)

\* --------------------------------------------- index contents: the claims
\* C22: every node of every tree built by a successful load satisfies
\* 0 <= start <= end <= 1440: no slot with its end before its start reaches
\* a tree.
C22_NodesAreOrderedIntervals ==
  loadErr = "ok" =>
    \A ds \in DOMAIN manager.interval_trees :
      \A p \in 1..Len(manager.interval_trees[ds].nodes) :
        LET n == manager.interval_trees[ds].nodes[p]
        IN 0 <= n.start /\ n.start <= n.end /\ n.end <= 1440

\* the slots of the batch whose day_id is the id of the day record kept for
\* the date, the last one of that date
KeptSlotsOn(ds) == {i \in SlotsOn(ds) : loader.timeslots[i].day_id = DayOn(ds).id}

\* C27: when the loaded batch has two day records with the same date, the
\* index keeps the later record for the date, and busyIntervals and
\* isAvailable for the date use only the slots whose day_id is the id of the
\* kept record: the slots of the overwritten record do not appear.
C27_OverwrittenDayHasNoSlots ==
  loadErr = "ok" =>
    \A ds \in DateTexts :
      Cardinality(DaysOn(ds)) >= 2 =>
        /\ manager.day_by_date[ds] = Day_from_dict(DayOn(ds))
        /\ \A pr \in MinutePairs :
             CountMins(get_busy_intervals(manager, ds).val, pr)
               = Cardinality({i \in KeptSlotsOn(ds) : RecordMins(loader.timeslots[i]) = pr})
        /\ \A a \in TimeTexts, b \in TimeTexts :
             Mins(<<a, b>>)[1] < Mins(<<a, b>>)[2] =>
               LET q == Mins(<<a, b>>)
                   w == RecordMins(DayOn(ds))
                   outside == q[1] < w[1] \/ q[2] > w[2]
                   overlap == \E i \in KeptSlotsOn(ds) :
                                LET x == RecordMins(loader.timeslots[i])
                                IN ~(x[2] <= q[1] \/ x[1] >= q[2])
               IN is_time_available(manager, ds, a, b) = Ok(~outside /\ ~overlap)

\* C28: two date strings the parser accepts for the same date, one
\* zero-padded and one not, get the same answer from busyIntervals,
\* freeIntervals and isAvailable on the same index.
C28_AnswerDependsOnTheDateOnly ==
  loadErr = "ok" =>
    \A q \in DateQueries :
      q.date.k = "date" =>
        Answer(manager, q) = Answer(manager, [q EXCEPT !.date = DateText(q.date.a, ~q.date.pad)])

\* the '%H:%M' text of the time d minutes after the time of the text t, as
\* the caller of find_free_slot computes the end of the slot it proposes
After(t, d) == TimeText(<<(Mins(<<t, t>>)[1] + d) \div 60, (Mins(<<t, t>>)[1] + d) % 60>>, TRUE)

\* C29: on a loaded index, if findFreeSlot(date, d) returns a start time t
\* then isAvailable(date, t, t + d minutes) returns true.
C29_FoundSlotIsAvailable ==
  loadErr = "ok" =>
    \A ds \in AnyDateTexts, d \in Durations :
      LET found == find_free_slot(manager, ds, d) IN
      (found.exc = "ok" /\ found.val # NoTime) =>
        is_time_available(manager, ds, found.val, After(found.val, d)) = Ok(TRUE)

\* ------------------------------------------------- threads: the claims
\* what a batch loaded alone, into an index of its own, leaves behind
LoadedAlone(days, timeslots) == set_data(NewManager, days, timeslots).m
BothLoadsFinished == loader.pc = "idle" /\ loadErr = "ok" /\ second.pc = "done"

\* C21: two loads started concurrently are serialized: when both have
\* returned, the day list, the slot list, the two day maps and the trees are
\* those that one of the two batches alone produces, never a mixture.
C21_ConcurrentLoadsAreSerialized ==
  BothLoadsFinished =>
    \/ manager = LoadedAlone(loader.days, loader.timeslots)
    \/ manager = LoadedAlone(second.days, second.timeslots)

\* C30: queries are read-only: a step in which an endpoint answers
\* busyIntervals, freeIntervals, isAvailable or findFreeSlot, with a value or
\* with an error, leaves the day list, the slot list, the two day maps and
\* every tree (structure, colours, max_end, size, sentinel) as they were; the
\* tree methods find_overlapping, get_all_intervals and is_empty run inside
\* these answers.
Answered == reply # NoReply
====
